---- MODULE Spec2Model ----
(***************************************************************************)
(* Job orchestration of src/app.py: the status registry                   *)
(* (processing_status), the worker pool (pdf_executor), the background    *)
(* task (process_pdf_task), the upload handler (upload_pdf), the status   *)
(* and download handlers and the two archive builders.                    *)
(*                                                                         *)
(* A Python dict is a function whose DOMAIN is the set of keys present,   *)
(* so "key in d" is  k \in DOMAIN d  and a missing key is a KeyError.     *)
(* Every statement  processing_status[job_id][k] = v  is one step of the  *)
(* thread that runs it: threads are preempted between statements.         *)
(***************************************************************************)
EXTENDS Integers, Sequences, FiniteSets, TLC

VARIABLES
    processing_status,  \* app.py:28  job_id -> job dict
    tasks,              \* app.py:30  work items handed to pdf_executor, in submit order
    upload,             \* app.py:1147 the upload request in flight and its response
    issued,             \* app.py:1176, 1344  how many ids uuid.uuid4() has given out
    disk,               \* app.py:24-26  what lies under outputs/
    download,           \* app.py:1288, 1334  the last archive request and its response
    builds              \* app.py:1288  the package requests in flight, in order of arrival

vars == <<processing_status, tasks, upload, issued, disk, download, builds>>

\* ------------------------------------------------------------------ bounds

\* Job ids issued in a run of Spec (statement-level interleaving).
MaxJobs == 2
\* Job ids issued in a run of SpecPool (more jobs than pool slots).
MaxPoolJobs == 6
\* Job ids issued in a run of SpecArchive.
MaxArchiveJobs == 2
\* Archive requests answered in a run of SpecArchive.
MaxDownloads == 1
\* Package requests that arrive in a run of SpecBuilds.
MaxBuilds == 2

\* ------------------------------------------------------- program constants

\* ThreadPoolExecutor(max_workers=5)
max_workers == 5

\* ------------------------------------------------------------ input sets

\* request.files.getlist('pdfs') of a request: file names already in
\* werkzeug's secure form; "" is a form part without a file name, <<>> a
\* request without the 'pdfs' part.
UploadFiles ==
    {<<>>, <<"">>, <<"a.pdf">>, <<"", "a.pdf">>, <<"a.pdf", "">>, <<"a.pdf", "a.pdf">>}
\* image_paths values parse_pdf may return
ImageLists == {<<>>, <<"0_0.png">>}
\* str(e) of the exceptions parse_pdf may raise
Causes == {"rate limit", "bad pdf"}
\* request.form['max_parallel'] values
MaxParallel == {1, 3, 8}
\* the same, for runs that load the pool with more jobs than it has workers
PoolUploadFiles == {<<"a.pdf">>, <<"a.pdf", "">>, <<"a.pdf", "a.pdf">>}
PoolImageLists == {<<"0_0.png">>}
PoolCauses == {"rate limit"}

\* ------------------------------------------------------------------ dicts

Range(q) == {q[i] : i \in DOMAIN q}

\* d[k] = v on a dict
SetKey(d, k, v) == [x \in DOMAIN d \cup {k} |-> IF x = k THEN v ELSE d[x]]

\* (variant: the job dicts are one shared object, so a store shows in all)
store_all_jobs(ps, job_id, key, value) ==
    [j \in DOMAIN ps |-> SetKey(ps[j], key, value)]

\* processing_status[job_id][key] = value: a store into that job's own dict
store(ps, job_id, key, value) ==
    [ps EXCEPT ![job_id] = SetKey(ps[job_id], key, value)]

\* ----------------------------------------------------- process_pdf_task

\* The statements of process_pdf_task that write the registry, in program
\* order, as <<line, key, value>>; t is the task's frame (its arguments and
\* locals).

\* (variant: line 1101 is missing)
try_head_no_processing(t) ==
    << <<1102, "message", <<"Converting PDF to Markdown...">>>>,
       <<1103, "progress", 10>>,
       <<1104, "filename", t.filename>>,
       <<1118, "progress", 30>>,
       <<1119, "message", <<"Parsing PDF pages...">>>> >>

\* (variant: the engine is called without the progress 30 checkpoint)
try_head_no_checkpoint(t) ==
    << <<1101, "status", "processing">>,
       <<1102, "message", <<"Converting PDF to Markdown...">>>>,
       <<1103, "progress", 10>>,
       <<1104, "filename", t.filename>>,
       <<1119, "message", <<"Parsing PDF pages...">>>> >>

\* try block, before the engine call
try_head(t) ==
    << <<1101, "status", "processing">>,
       <<1102, "message", <<"Converting PDF to Markdown...">>>>,
       <<1103, "progress", 10>>,
       <<1104, "filename", t.filename>>,
       <<1118, "progress", 30>>,
       <<1119, "message", <<"Parsing PDF pages...">>>> >>

\* (variant: the results are stored before the status)
try_tail_images_first(t) ==
    << <<1123, "progress", 90>>,
       <<1124, "message", <<"Finalizing...">>>>,
       <<1127, "images", t.image_paths>>,
       <<1128, "output_dir", t.output_dir>>,
       <<1129, "status", "completed">>,
       <<1130, "progress", 100>>,
       <<1131, "message", <<"Conversion complete!">>>> >>

\* try block, after parse_pdf returned (content, image_paths)
try_tail(t) ==
    << <<1123, "progress", 90>>,
       <<1124, "message", <<"Finalizing...">>>>,
       <<1127, "status", "completed">>,
       <<1128, "progress", 100>>,
       <<1129, "message", <<"Conversion complete!">>>>,
       <<1130, "images", t.image_paths>>,
       <<1131, "output_dir", t.output_dir>> >>

\* (variant: progress is reset first and the status stored last)
except_body_reset_first(t) ==
    << <<1134, "progress", 0>>,
       <<1135, "error", t.e>>,
       <<1136, "message", <<"Error: ", t.e>>>>,
       <<1137, "status", "failed">> >>

\* (variant: a fixed text is stored instead of str(e))
except_body_unknown_error(t) ==
    << <<1134, "status", "failed">>,
       <<1135, "error", "Unknown error occurred">>,
       <<1136, "message", <<"Error: ", "Unknown error occurred">>>>,
       <<1137, "progress", 0>> >>

\* (variant: a placeholder is stored as the error before str(e))
except_body_error_rewritten(t) ==
    << <<1134, "status", "failed">>,
       <<1135, "error", "failed">>,
       <<1135, "error", t.e>>,
       <<1136, "message", <<"Error: ", t.e>>>>,
       <<1137, "progress", 0>> >>

\* except Exception as e
except_body(t) ==
    << <<1134, "status", "failed">>,
       <<1135, "error", t.e>>,
       <<1136, "message", <<"Error: ", t.e>>>>,
       <<1137, "progress", 0>> >>

\* A task's frame holds its arguments, its locals once bound (image_paths,
\* e) and its position: block is "queued" (the work item waits in the
\* executor's queue), "try_head", "engine" (inside the call of parse_pdf,
\* line 1121), "try_tail", "except" or "returned"; idx is the statement of
\* the block it executes next.
Block(t) ==
    CASE t.block = "try_head" -> try_head(t)
      [] t.block = "try_tail" -> try_tail(t)
      [] t.block = "except"   -> except_body(t)

Queued(t)   == t.block = "queued"
InEngine(t) == t.block = "engine"
Finished(t) == t.block = "returned"
Running(ts) == {i \in DOMAIN ts : ~Queued(ts[i]) /\ ~Finished(ts[i])}
\* the task is about to execute one of its registry writes
AtStore(t)  == t.block \in {"try_head", "try_tail", "except"}

\* (variant: after the except block the task starts over)
Advance_retrying(t) ==
    IF t.idx < Len(Block(t)) THEN [t EXCEPT !.idx = @ + 1]
    ELSE [t EXCEPT !.block = IF @ = "try_head" THEN "engine"
                             ELSE IF @ = "except" THEN "try_head" ELSE "returned",
                   !.idx = IF t.block = "except" THEN 1 ELSE 0]

\* the frame after the statement at idx: the next statement of the block, the
\* engine call after try_head, the return after try_tail and except
Advance(t) ==
    IF t.idx < Len(Block(t)) THEN [t EXCEPT !.idx = @ + 1]
    ELSE [t EXCEPT !.block = IF @ = "try_head" THEN "engine" ELSE "returned", !.idx = 0]

\* ---------------------------------------------------------- the state

State ==
    [processing_status |-> processing_status, tasks |-> tasks, upload |-> upload,
     issued |-> issued, disk |-> disk, download |-> download, builds |-> builds]

Becomes(s) ==
    \E n \in {s} :
        /\ processing_status' = n.processing_status
        /\ tasks' = n.tasks
        /\ upload' = n.upload
        /\ issued' = n.issued
        /\ disk' = n.disk
        /\ download' = n.download
        /\ builds' = n.builds

\* ------------------------------------------------------- pdf_executor

\* (variant: a thread per work item, no limit)
idle_worker_unbounded(ts) == TRUE

\* (variant: a worker that ran a task never takes another)
idle_worker_never_released(ts) ==
    Cardinality({i \in DOMAIN ts : ~Queued(ts[i])}) < max_workers

\* a worker thread is free to take the next work item
idle_worker(ts) == Cardinality(Running(ts)) < max_workers

\* (variant: a worker takes the newest work item)
NextItem_newest(ts) ==
    CHOOSE i \in DOMAIN ts : Queued(ts[i]) /\ \A k \in (i + 1)..Len(ts) : ~Queued(ts[k])

\* the work item a free worker takes: the oldest one still queued
NextItem(ts) == CHOOSE i \in DOMAIN ts : Queued(ts[i]) /\ \A k \in 1..(i - 1) : ~Queued(ts[k])

\* (variant: the work item is never queued)
submit_dropped(ts, job_id, filename, output_dir) == ts

\* (variant: a bounded queue that refuses work while every worker is busy)
submit_refused_when_busy(ts, job_id, filename, output_dir) ==
    IF idle_worker(ts)
    THEN Append(ts, [job_id |-> job_id, filename |-> filename,
                     output_dir |-> output_dir, block |-> "queued", idx |-> 0])
    ELSE ts

\* (variant: the job is handed to the pool twice)
submit_twice(ts, job_id, filename, output_dir) ==
    LET item == [job_id |-> job_id, filename |-> filename,
                 output_dir |-> output_dir, block |-> "queued", idx |-> 0]
    IN  Append(Append(ts, item), item)

\* pdf_executor.submit(process_pdf_task, job_id, pdf_path, filename, ..., output_dir)
submit(ts, job_id, filename, output_dir) ==
    Append(ts, [job_id |-> job_id, filename |-> filename,
                output_dir |-> output_dir, block |-> "queued", idx |-> 0])

\* a worker takes work item i and enters process_pdf_task
worker_get(s, i) ==
    [s EXCEPT !.tasks[i].block = "try_head", !.tasks[i].idx = 1]

\* the statement at the task's idx: one store into the registry
task_store(s, i) ==
    LET t  == s.tasks[i]
        st == Block(t)[t.idx]
    IN  [s EXCEPT !.processing_status = store(@, t.job_id, st[2], st[3]),
                  !.tasks[i] = Advance(t)]

\* content, image_paths = parse_pdf(**kwargs) returns; written is what the
\* call left in output_dir
engine_return(s, i, imgs, written) ==
    [s EXCEPT !.tasks[i] =
                  [SetKey(@, "image_paths", imgs) EXCEPT !.block = "try_tail", !.idx = 1],
              !.disk.outputs[s.tasks[i].job_id] = written]

\* parse_pdf(**kwargs) raises e
engine_raise(s, i, cause) ==
    [s EXCEPT !.tasks[i] =
        [SetKey(@, "e", cause) EXCEPT !.block = "except", !.idx = 1]]

\* the task runs on, unpreempted, to its next blocking call or to its return
\* (n names the state after one statement)
RECURSIVE task_run(_, _)
task_run(s, i) ==
    IF AtStore(s.tasks[i])
    THEN CHOOSE r \in {task_run(n, i) : n \in {task_store(s, i)}} : TRUE
    ELSE s

\* what parse_pdf leaves in output_dir when all goes well: the markdown and
\* every image it reports
Written(imgs) == {"output.md"} \cup Range(imgs)

\* os.path.exists(os.path.join(output_dir, name)) for a job's output_dir
\* <<"outputs", job_id>>
exists(d, output_dir, name) ==
    output_dir[2] \in DOMAIN d.outputs /\ name \in d.outputs[output_dir[2]]

\* the last archive request and its response: zip is the archive sent (<<>>
\* when none is), download_name the name it is sent under, served the number
\* of archive requests answered so far
NoDownload ==
    [handler |-> "", job_ids |-> <<>>, code |-> 0, body |-> "",
     zip |-> <<>>, download_name |-> "", served |-> 0]

\* ----------------------------------------------------------- upload_pdf

\* the upload request's frame: pc is "idle" (no request yet), "save" (about to
\* run lines 1176-1186 for pdf_files[i]), "register" (line 1189), "submit"
\* (line 1200) or "done" (returned; response holds the JSON body)
NoUpload == [pc |-> "idle", files |-> <<>>, i |-> 0, job_ids |-> <<>>, response |-> <<>>]

\* (variant: the id is drawn once per request, before the loop)
uuid4_per_request(s) ==
    IF s.upload.job_ids = <<>> THEN s.issued.job_id + 1 ELSE s.upload.job_ids[1]

\* str(uuid.uuid4()): a value the generator has not given out before; ids
\* are numbered in order of issue
uuid4(s) == s.issued.job_id + 1

\* the files of a request that the loop does not skip (line 1172)
Named(files) == {k \in DOMAIN files : files[k] # ""}

\* the loop's next iteration that passes `if pdf_file.filename == ''`
NextNamed(files, i) ==
    IF \E k \in Named(files) : k > i
    THEN CHOOSE k \in Named(files) : k > i /\ \A m \in Named(files) : m > i => k <= m
    ELSE Len(files) + 1

\* the job this iteration of the loop is about
job_id_of(u)     == u.job_ids[Len(u.job_ids)]
filename_of(u)   == u.files[u.i]
pdf_path_of(u)   == <<"uploads", job_id_of(u), filename_of(u)>>
output_dir_of(u) == <<"outputs", job_id_of(u)>>

\* lines 1149-1168: the checks before the loop; max_parallel is read (line
\* 1166) and never used
upload_begin(s, files, api_key, max_parallel) ==
    LET fail(msg) == [NoUpload EXCEPT !.pc = "done", !.files = files,
                          !.response = [success |-> FALSE, error |-> msg]]
    IN  [s EXCEPT !.upload =
            IF files = <<>> THEN fail("No PDF files provided")
            ELSE IF files[1] = "" THEN fail("No files selected")
            ELSE IF ~api_key THEN fail("API key is required")
            ELSE [NoUpload EXCEPT !.pc = "save", !.files = files, !.i = 1]]

\* lines 1176-1186: a fresh id, appended to job_ids; the file is stored and
\* the job's output directory made
upload_save(s) ==
    [s EXCEPT !.upload.job_ids = Append(@, uuid4(s)),
              !.issued.job_id = @ + 1,
              !.disk.outputs = SetKey(@, uuid4(s), {}),
              !.upload.pc = "register"]

\* line 1182 raises: the handler's except returns the failure (line 1208)
upload_save_raises(s, cause) ==
    [s EXCEPT !.upload.job_ids = Append(@, uuid4(s)),
              !.issued.job_id = @ + 1,
              !.upload.pc = "done",
              !.upload.response = [success |-> FALSE, error |-> cause]]

\* lines 1176-1186 when uuid4 returns an id that is already registered: the
\* file is stored again and makedirs(exist_ok=True) keeps the directory
upload_save_repeated(s, id) ==
    [s EXCEPT !.upload.job_ids = Append(@, id),
              !.issued.job_id = @ + 1,
              !.upload.pc = "register"]

\* lines 1189-1197: processing_status[job_id] = {...}
upload_register(s) ==
    LET u == s.upload
    IN  [s EXCEPT !.processing_status =
                      SetKey(@, job_id_of(u),
                             [job_id |-> job_id_of(u), status |-> "queued",
                              progress |-> 0, message |-> <<"Queued...">>,
                              pdf_path |-> pdf_path_of(u),
                              filename |-> filename_of(u)]),
                  !.upload.pc = "submit"]

\* lines 1200-1205: hand the job to the pool, then the next file or the return
upload_submit(s) ==
    LET u == s.upload
        n == NextNamed(u.files, u.i)
    IN  [s EXCEPT !.tasks = submit(@, job_id_of(u), filename_of(u), output_dir_of(u)),
                  !.upload.i = n,
                  !.upload.pc = IF n > Len(u.files) THEN "done" ELSE "save",
                  !.upload.response =
                      IF n > Len(u.files)
                      THEN [success |-> TRUE, job_ids |-> u.job_ids,
                            count |-> Len(u.job_ids)]
                      ELSE @]

\* ------------------------------------------------------------- actions

Init ==
    /\ processing_status = <<>>
    /\ tasks = <<>>
    /\ upload = NoUpload
    /\ issued = [job_id |-> 0, batch_id |-> 0]
    /\ disk = [outputs |-> <<>>, staging |-> <<>>, zips |-> <<>>]
    /\ download = NoDownload
    /\ builds = <<>>

\* A request arrives; N bounds the ids a run issues.
UploadBegin(N, Files) ==
    \E files \in Files, api_key \in BOOLEAN, max_parallel \in MaxParallel :
        /\ upload.pc \in {"idle", "done"}
        /\ issued.job_id + Cardinality(Named(files)) <= N
        /\ Becomes(upload_begin(State, files, api_key, max_parallel))

UploadSave ==
    /\ upload.pc = "save"
    /\ Becomes(upload_save(State))

UploadSaveRaises ==
    /\ upload.pc = "save"
    /\ Becomes(upload_save_raises(State, "disk full"))

UploadRegister ==
    /\ upload.pc = "register"
    /\ Becomes(upload_register(State))

UploadSubmit ==
    /\ upload.pc = "submit"
    /\ Becomes(upload_submit(State))

WorkerGet ==
    /\ \E i \in DOMAIN tasks : Queued(tasks[i])
    /\ idle_worker(tasks)
    /\ \E i \in {NextItem(tasks)} : Becomes(worker_get(State, i))

TaskStore ==
    \E i \in DOMAIN tasks :
        /\ AtStore(tasks[i])
        /\ Becomes(task_store(State, i))

EngineReturn ==
    \E i \in DOMAIN tasks, imgs \in ImageLists :
        /\ InEngine(tasks[i])
        /\ Becomes(engine_return(State, i, imgs, Written(imgs)))

EngineRaise ==
    \E i \in DOMAIN tasks, cause \in Causes :
        /\ InEngine(tasks[i])
        /\ Becomes(engine_raise(State, i, cause))

Next ==
    \/ UploadBegin(MaxJobs, UploadFiles)
    \/ UploadSave
    \/ UploadSaveRaises
    \/ UploadRegister
    \/ UploadSubmit
    \/ WorkerGet
    \/ TaskStore
    \/ EngineReturn
    \/ EngineRaise

\* Every statement is a preemption point.
Spec == Init /\ [][Next]_vars

\* The generator repeats an id (line 1176); nothing between lines 1176 and
\* 1189 looks the id up in processing_status.
UploadSaveRepeated ==
    \E id \in DOMAIN processing_status :
        /\ upload.pc = "save"
        /\ Becomes(upload_save_repeated(State, id))

NextDuplicate ==
    \/ UploadSaveRepeated
    \/ Next

\* Spec without the assumption that uuid4 never repeats.
SpecDuplicate == Init /\ [][NextDuplicate]_vars

\* The same statements under a scheduler that switches threads only at
\* blocking calls (pdf_file.save, parse_pdf) and at a thread's return: each
\* step runs one thread from one such point to the next. Its states are
\* states of Spec; it is what lets a run hold more jobs than the pool has
\* workers. pdf_file.save does not raise in these runs.
UploadFileRun ==
    /\ upload.pc = "save"
    /\ \E saved \in {upload_save(State)} :
       \E registered \in {upload_register(saved)} :
           Becomes(upload_submit(registered))

TaskStartRun ==
    /\ \E i \in DOMAIN tasks : Queued(tasks[i])
    /\ idle_worker(tasks)
    /\ \E i \in {NextItem(tasks)} :
       \E entered \in {worker_get(State, i)} :
           Becomes(task_run(entered, i))

EngineReturnRun ==
    \E i \in DOMAIN tasks, imgs \in PoolImageLists :
        /\ InEngine(tasks[i])
        /\ \E returned \in {engine_return(State, i, imgs, Written(imgs))} :
               Becomes(task_run(returned, i))

EngineRaiseRun ==
    \E i \in DOMAIN tasks, cause \in PoolCauses :
        /\ InEngine(tasks[i])
        /\ \E raised \in {engine_raise(State, i, cause)} :
               Becomes(task_run(raised, i))

NextPool ==
    \/ UploadBegin(MaxPoolJobs, PoolUploadFiles)
    \/ UploadFileRun
    \/ TaskStartRun
    \/ EngineReturnRun
    \/ EngineRaiseRun

SpecPool == Init /\ [][NextPool]_vars

\* Scheduling is fair and every engine call returns or raises.
FairSpecPool ==
    /\ SpecPool
    /\ WF_vars(UploadFileRun)
    /\ WF_vars(TaskStartRun)
    /\ WF_vars(EngineRaiseRun \/ EngineReturnRun)

\* ------------------------------------------------------ read handlers

\* download_markdown(job_id), run against the registry as it stands: the
\* HTTP status and body. A completed job's dict without 'output_dir' is a
\* KeyError at line 1265, which Flask answers with 500.
download_markdown(job_id) ==
    IF job_id \notin DOMAIN processing_status THEN <<404, "Job not found">>
    ELSE LET status == processing_status[job_id]
         IN  IF status["status"] # "completed" THEN <<400, "Job not completed">>
             ELSE IF "output_dir" \notin DOMAIN status THEN <<500, "KeyError: 'output_dir'">>
             ELSE IF ~exists(disk, status["output_dir"], "output.md")
                  THEN <<404, "Markdown file not found">>
             ELSE <<200, <<status["output_dir"], "output.md">>>>

\* the artifact names a download_image request may carry
ImageNames == {"0_0.png", "1_0.png"}

\* download_image(job_id, image_name): send_from_directory answers 404 for
\* a name that is no file of output_dir
download_image(job_id, image_name) ==
    IF job_id \notin DOMAIN processing_status THEN <<404, "Job not found">>
    ELSE LET status == processing_status[job_id]
         IN  IF status["status"] # "completed" THEN <<400, "Job not completed">>
             ELSE IF "output_dir" \notin DOMAIN status THEN <<500, "KeyError: 'output_dir'">>
             ELSE IF ~exists(disk, status["output_dir"], image_name)
                  THEN <<404, "Not Found">>
             ELSE <<200, <<status["output_dir"], image_name>>>>

\* the job_ids lists of a status or batch request: id 0 is never issued
JobIdLists == UNION {[1..n -> 0..2] : n \in 0..3}

\* lines 1226-1229: the loop over job_ids
RECURSIVE statuses_of(_, _)
statuses_of(ps, job_ids) ==
    IF job_ids = <<>> THEN <<>>
    ELSE (IF Head(job_ids) \in DOMAIN ps THEN <<ps[Head(job_ids)]>> ELSE <<>>)
             \o statuses_of(ps, Tail(job_ids))

\* (variant: the loop reads processing_status[job_id] without the test)
get_batch_status_unchecked(ps, data) ==
    LET job_ids == IF "job_ids" \in DOMAIN data THEN data["job_ids"] ELSE <<>>
    IN  IF \E k \in DOMAIN job_ids : job_ids[k] \notin DOMAIN ps
        THEN <<400, [error |-> "KeyError"]>>
        ELSE <<200, statuses_of(ps, job_ids)>>

\* get_batch_status with the JSON body data (a dict): HTTP status and body
get_batch_status(ps, data) ==
    LET job_ids == IF "job_ids" \in DOMAIN data THEN data["job_ids"] ELSE <<>>
    IN  <<200, statuses_of(ps, job_ids)>>

\* ---------------------------------------------------- archive builders

\* The directories under outputs/ are named by tuples: <<"outputs", job_id>>
\* a job's output_dir, <<"package", job_id>> the staging directory
\* outputs/{job_id}_package and the archive outputs/{job_id}_package.zip,
\* <<"batch", batch_id>> the staging directory outputs/batch_{batch_id} and
\* the archive outputs/all_pdfs_{batch_id}.zip. A directory's or an
\* archive's content is the set of the paths below it, each a tuple of names.

\* d.get(k, default)
Get(d, k, default) == IF k \in DOMAIN d THEN d[k] ELSE default

\* str.replace(old, new): every occurrence, left to right
RECURSIVE replace(_, _, _)
replace(str, old, new) ==
    IF Len(str) < Len(old) THEN str
    ELSE IF SubSeq(str, 1, Len(old)) = old
         THEN new \o replace(SubSeq(str, Len(old) + 1, Len(str)), old, new)
         ELSE SubSeq(str, 1, 1) \o replace(Tail(str), old, new)

\* the library calls of a build that may raise OSError ("" is none does)
Raises == {"", "copy2", "make_archive"}

\* the images of status that are files of output_dir (lines 1317-1322,
\* 1395-1402)
images_on_disk(d, status) ==
    IF "images" \in DOMAIN status /\ status["images"] # <<>>
    THEN {img \in Range(status["images"]) : exists(d, status["output_dir"], img)}
    ELSE {}

\* (variant: the handler forgets the jobs it was asked about)
respond_forgetting(s, handler, job_ids, code, body, zip, download_name) ==
    [s EXCEPT !.processing_status = [j \in DOMAIN @ \ Range(job_ids) |-> @[j]],
              !.download =
        [handler |-> handler, job_ids |-> job_ids, code |-> code, body |-> body,
         zip |-> zip, download_name |-> download_name, served |-> @.served + 1]]

\* the handler returns
respond(s, handler, job_ids, code, body, zip, download_name) ==
    [s EXCEPT !.download =
        [handler |-> handler, job_ids |-> job_ids, code |-> code, body |-> body,
         zip |-> zip, download_name |-> download_name, served |-> @.served + 1]]

\* download_package returns without an archive
package_answer(s, job_id, code, body) ==
    respond(s, "download_package", <<job_id>>, code, body, <<>>, "")

\* lines 1298-1331 for a job whose dict holds output_dir; with raises, the
\* first call of that name raises OSError, which Flask answers with 500
package_build(s, job_id, raises) ==
    LET status      == s.processing_status[job_id]
        filename    == replace(Get(status, "filename", "document"), ".pdf", "")
        package_dir == <<"package", job_id>>
        made        == Get(s.disk.staging, package_dir, {}) \cup {<<"images">>}
        markdown    == IF exists(s.disk, status["output_dir"], "output.md")
                       THEN {<<filename \o ".md">>} ELSE {}
        images      == {<<"images", img>> : img \in images_on_disk(s.disk, status)}
    IN  IF raises = "copy2" /\ markdown \cup images # {}
        THEN [package_answer(s, job_id, 500, "OSError") EXCEPT
                 !.disk.staging = SetKey(@, package_dir, made)]
        ELSE IF raises = "make_archive"
        THEN [package_answer(s, job_id, 500, "OSError") EXCEPT
                 !.disk.staging = SetKey(@, package_dir, made \cup markdown \cup images)]
        ELSE [respond(s, "download_package", <<job_id>>, 200, "", package_dir,
                      filename \o "_complete.zip") EXCEPT
                 !.disk.zips = SetKey(@, package_dir, made \cup markdown \cup images),
                 !.disk.staging = [x \in DOMAIN @ \ {package_dir} |-> @[x]]]

\* (variant: package_dir is made before the job is looked up)
download_package_makedirs_first(s, job_id, raises) ==
    LET made == [s EXCEPT !.disk.staging =
                     SetKey(@, <<"package", job_id>>, Get(@, <<"package", job_id>>, {}))]
    IN  IF job_id \notin DOMAIN s.processing_status
        THEN package_answer(made, job_id, 404, "Job not found")
        ELSE IF s.processing_status[job_id]["status"] # "completed"
        THEN package_answer(made, job_id, 400, "Job not completed")
        ELSE IF "output_dir" \notin DOMAIN s.processing_status[job_id]
        THEN package_answer(made, job_id, 500, "KeyError: 'output_dir'")
        ELSE package_build(s, job_id, raises)

\* download_package(job_id): a completed job's dict without 'output_dir' is a
\* KeyError at line 1298, before anything is made
download_package(s, job_id, raises) ==
    IF job_id \notin DOMAIN s.processing_status
    THEN package_answer(s, job_id, 404, "Job not found")
    ELSE IF s.processing_status[job_id]["status"] # "completed"
    THEN package_answer(s, job_id, 400, "Job not completed")
    ELSE IF "output_dir" \notin DOMAIN s.processing_status[job_id]
    THEN package_answer(s, job_id, 500, "KeyError: 'output_dir'")
    ELSE package_build(s, job_id, raises)

\* os.path.exists(os.path.join(batch_dir, name)) where tree is batch_dir's
\* content: joining "" gives batch_dir itself
exists_in(tree, name) == name = "" \/ <<name>> \in tree

\* (variant: the folder is named after the file, whatever batch_dir holds)
pdf_folder_name_unchecked(tree, filename, name, counter) == name

\* (variant: the counter is appended after it is incremented)
RECURSIVE pdf_folder_name_skipping(_, _, _, _)
pdf_folder_name_skipping(tree, filename, name, counter) ==
    IF exists_in(tree, name)
    THEN pdf_folder_name_skipping(tree, filename,
                                  filename \o "_" \o ToString(counter + 1), counter + 1)
    ELSE name

\* lines 1371-1375: the while loop, entered with name = filename, counter = 1
RECURSIVE pdf_folder_name(_, _, _, _)
pdf_folder_name(tree, filename, name, counter) ==
    IF exists_in(tree, name)
    THEN pdf_folder_name(tree, filename, filename \o "_" \o ToString(counter), counter + 1)
    ELSE name

\* lines 1351-1404: one iteration of the loop over job_ids. acc holds
\* batch_dir's content (tree), the folder given to each position of job_ids
\* (folders, "" when the position got none), processed_count and the
\* exception that ended the loop (e, "" while none has). The piece 0 of
\* job_ids is one that strip() leaves empty.
batch_add(s, acc, job_id, raises) ==
    IF acc.e # "" THEN acc
    ELSE
    LET skip == [acc EXCEPT !.folders = Append(@, "")]
    IN  IF job_id = 0 THEN skip
        ELSE IF job_id \notin DOMAIN s.processing_status THEN skip
        ELSE
        LET status == s.processing_status[job_id]
        IN  IF status["status"] # "completed" THEN skip
            ELSE IF "output_dir" \notin DOMAIN status THEN [acc EXCEPT !.e = "'output_dir'"]
            ELSE
            LET filename == replace(replace(Get(status, "filename", "document"),
                                            ".pdf", ""), ".PDF", "")
                folder   == pdf_folder_name(acc.tree, filename, filename, 1)
                made     == acc.tree \cup {<<folder>>, <<folder, "images">>}
                has_md   == exists(s.disk, status["output_dir"], "output.md")
                markdown == IF has_md THEN {<<folder, filename \o ".md">>} ELSE {}
                images   == {<<folder, "images", img>> : img \in images_on_disk(s.disk, status)}
            IN  IF raises = "copy2" /\ markdown \cup images # {}
                THEN [acc EXCEPT !.tree = made, !.folders = Append(@, folder),
                                 !.e = "OSError"]
                ELSE [acc EXCEPT !.tree = made \cup markdown \cup images,
                                 !.folders = Append(@, folder),
                                 !.processed_count = IF has_md THEN @ + 1 ELSE @]

\* the loop over job_ids[k..]
RECURSIVE batch_loop(_, _, _, _, _)
batch_loop(s, acc, job_ids, k, raises) ==
    IF k > Len(job_ids) THEN acc
    ELSE CHOOSE r \in {batch_loop(s, n, job_ids, k + 1, raises) :
                           n \in {batch_add(s, acc, job_ids[k], raises)}} : TRUE

\* str(uuid.uuid4())[:8]: taken as a value not given out before; batch ids
\* are numbered in order of issue
batch_id_of(s) == s.issued.batch_id + 1

\* download_all_pdfs with request.args['job_ids'] split at the commas
download_all_pdfs(s, job_ids, raises) ==
    LET answer(t, code, body) == respond(t, "download_all_pdfs", job_ids, code, body, <<>>, "")
    IN  IF job_ids = <<>> \/ job_ids = <<0>> THEN answer(s, 400, "No jobs specified")
        ELSE
        LET batch_dir == <<"batch", batch_id_of(s)>>
            begun     == [s EXCEPT !.issued.batch_id = @ + 1]
            acc       == batch_loop(s, [tree |-> {}, folders |-> <<>>,
                                        processed_count |-> 0, e |-> ""],
                                    job_ids, 1, raises)
            left      == [begun EXCEPT !.disk.staging = SetKey(@, batch_dir, acc.tree)]
        IN  IF acc.e # ""
            THEN answer(left, 500, "Error creating batch download: " \o acc.e)
            ELSE IF acc.processed_count = 0
            THEN answer(begun, 404, "No completed PDFs found to download")
            ELSE IF raises = "make_archive"
            THEN answer(left, 500, "Error creating batch download: OSError")
            ELSE [respond(begun, "download_all_pdfs", job_ids, 200, "", batch_dir,
                          "all_converted_pdfs_" \o ToString(acc.processed_count)
                              \o "_files.zip") EXCEPT
                     !.disk.zips = SetKey(@, batch_dir, acc.tree)]

\* the inputs of the runs that build archives: single-file uploads whose
\* names collide once the extension is stripped and the counter appended
ArchiveUploadFiles == {<<"a.pdf">>, <<"a_1.pdf">>}
\* image_paths of the jobs of these runs
ArchiveImageLists == {<<"0_0.png">>}
\* what parse_pdf may have left in output_dir by the time an archive is built
WrittenSets(imgs) == {Written(imgs), Written(imgs) \ {"output.md"}, {"output.md"}}
\* an id no job has
UnknownId == 9
\* the job a package request names
ArchivePackageIds == {1, UnknownId}
\* request.args['job_ids'] split at the commas; 0 is an empty piece
ArchiveJobIdLists ==
    {<<0>>, <<UnknownId, 0>>, <<1>>, <<2, 1>>, <<1, 1, 2>>, <<1, 2, 3>>}

ArchiveEngineReturnRun ==
    \E i \in DOMAIN tasks, imgs \in ArchiveImageLists :
        /\ InEngine(tasks[i])
        /\ \E written \in WrittenSets(imgs) :
           \E returned \in {engine_return(State, i, imgs, written)} :
               Becomes(task_run(returned, i))

DownloadPackage ==
    \E job_id \in ArchivePackageIds, raises \in Raises :
        /\ download.served < MaxDownloads
        /\ Becomes(download_package(State, job_id, raises))

DownloadAllPdfs ==
    \E job_ids \in ArchiveJobIdLists, raises \in Raises :
        /\ download.served < MaxDownloads
        /\ Becomes(download_all_pdfs(State, job_ids, raises))

NextArchive ==
    \/ UploadBegin(MaxArchiveJobs, ArchiveUploadFiles)
    \/ UploadFileRun
    \/ TaskStartRun
    \/ ArchiveEngineReturnRun
    \/ EngineRaiseRun
    \/ DownloadPackage
    \/ DownloadAllPdfs

\* The scheduler of SpecPool, with the archive requests.
SpecArchive == Init /\ [][NextArchive]_vars

\* uploads whose names carry an upper-case extension, or .pdf inside the
\* name; secure_filename (line 1180) leaves these names as they are
LayoutUploadFiles == {<<"a.PDF">>, <<"a.pdfb.pdf">>}

NextLayout ==
    \/ UploadBegin(MaxArchiveJobs, LayoutUploadFiles)
    \/ UploadFileRun
    \/ TaskStartRun
    \/ ArchiveEngineReturnRun
    \/ EngineRaiseRun
    \/ DownloadPackage
    \/ DownloadAllPdfs

\* SpecArchive for the file names of LayoutUploadFiles.
SpecLayout == Init /\ [][NextLayout]_vars

\* ------------------------------------------ the read handlers' requests

\* (variant: no answer while every worker is inside the engine)
get_status_waiting(ps, job_id) ==
    IF Cardinality({i \in DOMAIN tasks : InEngine(tasks[i])}) = max_workers
    THEN [status |-> "busy", error |-> "Try again"]
    ELSE IF job_id \notin DOMAIN ps
    THEN [status |-> "not_found", error |-> "Job not found"]
    ELSE ps[job_id]

\* get_status(job_id): the JSON body, always with HTTP status 200; the
\* registry is a plain dict (line 28) read without any lock
get_status(ps, job_id) ==
    IF job_id \notin DOMAIN ps
    THEN [status |-> "not_found", error |-> "Job not found"]
    ELSE ps[job_id]

\* the job_ids of the batch status requests of these runs
StatusJobIdLists == {<<1, UnknownId>>, <<2, 1>>}

\* Each read handler answers in one step; download records the handler, the
\* ids asked about, the HTTP status and, where the body is a text, the body
\* (for get_status the status field of the JSON body).
GetStatus ==
    \E job_id \in ArchivePackageIds :
        /\ download.served < MaxDownloads
        /\ Becomes(respond(State, "get_status", <<job_id>>, 200,
                           get_status(processing_status, job_id)["status"], <<>>, ""))

GetBatchStatus ==
    \E job_ids \in StatusJobIdLists :
        /\ download.served < MaxDownloads
        /\ Becomes(respond(State, "get_batch_status", job_ids,
                           get_batch_status(processing_status, [job_ids |-> job_ids])[1],
                           "", <<>>, ""))

DownloadMarkdown ==
    \E job_id \in ArchivePackageIds :
        /\ download.served < MaxDownloads
        /\ \E r \in {download_markdown(job_id)} :
               Becomes(respond(State, "download_markdown", <<job_id>>, r[1],
                               IF r[1] = 200 THEN "" ELSE r[2], <<>>,
                               IF r[1] = 200 THEN "output.md" ELSE ""))

DownloadImage ==
    \E job_id \in ArchivePackageIds, image_name \in ImageNames :
        /\ download.served < MaxDownloads
        /\ \E r \in {download_image(job_id, image_name)} :
               Becomes(respond(State, "download_image", <<job_id>>, r[1],
                               IF r[1] = 200 THEN "" ELSE r[2], <<>>,
                               IF r[1] = 200 THEN image_name ELSE ""))

NextReads ==
    \/ UploadBegin(MaxArchiveJobs, PoolUploadFiles)
    \/ UploadFileRun
    \/ TaskStartRun
    \/ EngineReturnRun
    \/ EngineRaiseRun
    \/ GetStatus
    \/ GetBatchStatus
    \/ DownloadMarkdown
    \/ DownloadImage
    \/ DownloadPackage
    \/ DownloadAllPdfs

\* The scheduler of SpecPool, with every handler that reads the registry.
SpecReads == Init /\ [][NextReads]_vars

NextStatus ==
    \/ UploadBegin(MaxPoolJobs, PoolUploadFiles)
    \/ UploadFileRun
    \/ TaskStartRun
    \/ EngineReturnRun
    \/ EngineRaiseRun
    \/ GetStatus
    \/ GetBatchStatus

\* SpecPool with the status requests: more jobs than the pool has workers.
SpecStatus == Init /\ [][NextStatus]_vars

\* ------------------------------------- download_package, step by step

\* Flask serves each request on a thread of its own, so two package requests
\* interleave at their file-system calls. A request's frame holds job_id, the
\* staging directory it works in (dir), its position pc ("copy" before line
\* 1309, "archive" before line 1326, "rmtree" before line 1329, "done") and,
\* once done, the HTTP status code.

\* a request returns or dies with an exception
build_done(s, b, code) ==
    [s EXCEPT !.builds[b].pc = "done", !.builds[b].code = code]

\* lines 1290-1307: the checks, then os.makedirs of package_dir and images_dir
package_begin(s, job_id) ==
    LET frame(pc, code) == [job_id |-> job_id, dir |-> <<"package", job_id>>,
                            pc |-> pc, code |-> code]
        refused(code)   == [s EXCEPT !.builds = Append(@, frame("done", code))]
    IN  IF job_id \notin DOMAIN s.processing_status THEN refused(404)
        ELSE IF s.processing_status[job_id]["status"] # "completed" THEN refused(400)
        ELSE IF "output_dir" \notin DOMAIN s.processing_status[job_id] THEN refused(500)
        ELSE [s EXCEPT !.builds = Append(@, frame("copy", 0)),
                       !.disk.staging =
                           SetKey(@, <<"package", job_id>>,
                                  Get(@, <<"package", job_id>>, {}) \cup {<<"images">>})]

\* lines 1309-1322: the copies; shutil.copy2 into a directory that is gone
\* raises FileNotFoundError
package_copy(s, b) ==
    LET f        == s.builds[b]
        status   == s.processing_status[f.job_id]
        filename == replace(Get(status, "filename", "document"), ".pdf", "")
        markdown == IF exists(s.disk, status["output_dir"], "output.md")
                    THEN {<<filename \o ".md">>} ELSE {}
        images   == {<<"images", img>> : img \in images_on_disk(s.disk, status)}
    IN  IF markdown \cup images # {} /\ f.dir \notin DOMAIN s.disk.staging
        THEN build_done(s, b, 500)
        ELSE [s EXCEPT !.builds[b].pc = "archive",
                       !.disk.staging =
                           IF f.dir \in DOMAIN @
                           THEN [@ EXCEPT ![f.dir] = @ \cup markdown \cup images]
                           ELSE @]

\* line 1326: shutil.make_archive of a directory that is gone raises
package_archive(s, b) ==
    LET f == s.builds[b]
    IN  IF f.dir \notin DOMAIN s.disk.staging THEN build_done(s, b, 500)
        ELSE [s EXCEPT !.builds[b].pc = "rmtree",
                       !.disk.zips = SetKey(@, f.dir, s.disk.staging[f.dir])]

\* lines 1329-1331: shutil.rmtree of a directory that is gone raises; else
\* the archive is sent
package_rmtree(s, b) ==
    LET f == s.builds[b]
    IN  IF f.dir \notin DOMAIN s.disk.staging THEN build_done(s, b, 500)
        ELSE [build_done(s, b, 200) EXCEPT
                 !.disk.staging = [x \in DOMAIN @ \ {f.dir} |-> @[x]]]

\* the requests that have not returned
InFlight == {b \in DOMAIN builds : builds[b].pc # "done"}

PackageBegin ==
    \E job_id \in ArchivePackageIds :
        /\ Len(builds) < MaxBuilds
        /\ Becomes(package_begin(State, job_id))

PackageCopy ==
    \E b \in DOMAIN builds :
        /\ builds[b].pc = "copy"
        /\ Becomes(package_copy(State, b))

PackageArchive ==
    \E b \in DOMAIN builds :
        /\ builds[b].pc = "archive"
        /\ Becomes(package_archive(State, b))

PackageRmtree ==
    \E b \in DOMAIN builds :
        /\ builds[b].pc = "rmtree"
        /\ Becomes(package_rmtree(State, b))

NextBuilds ==
    \/ UploadBegin(MaxArchiveJobs, PoolUploadFiles)
    \/ UploadFileRun
    \/ TaskStartRun
    \/ EngineReturnRun
    \/ EngineRaiseRun
    \/ PackageBegin
    \/ PackageCopy
    \/ PackageArchive
    \/ PackageRmtree

\* The scheduler of SpecPool, with package requests that interleave.
SpecBuilds == Init /\ [][NextBuilds]_vars

\* ------------------------------------------------------------- claims

Jobs == DOMAIN processing_status
StatusOf(j) == processing_status[j]["status"]
Terminal == {"completed", "failed"}
TasksOf(j) == {i \in DOMAIN tasks : tasks[i].job_id = j}

\* C1: every change of a job's status is queued -> processing,
\* processing -> completed or processing -> failed; a job enters the registry
\* queued and never leaves it, so nothing skips processing and nothing leaves
\* completed or failed.
C1_ValidTransitions ==
    [][ /\ \A j \in Jobs :
              /\ j \in DOMAIN processing_status'
              /\ \/ processing_status'[j]["status"] = StatusOf(j)
                 \/ <<StatusOf(j), processing_status'[j]["status"]>> \in
                        { <<"queued", "processing">>,
                          <<"processing", "completed">>,
                          <<"processing", "failed">> }
        /\ \A j \in DOMAIN processing_status' \ Jobs :
              processing_status'[j]["status"] = "queued" ]_vars

C1_Witness ==
    /\ \E j \in Jobs : StatusOf(j) = "completed"
    /\ \E j \in Jobs : StatusOf(j) = "failed"

\* C2: at most max_workers jobs have status processing at any instant,
\* whatever max_parallel the requests carried: a job is processing only
\* while a worker thread runs its task.
C2_BoundedParallelism ==
    /\ Cardinality({j \in Jobs : StatusOf(j) = "processing"}) <= max_workers
    /\ \A j \in Jobs :
           StatusOf(j) = "processing" => TasksOf(j) \cap Running(tasks) # {}

C2_Witness ==
    /\ Cardinality(Jobs) > max_workers
    /\ Cardinality({j \in Jobs : StatusOf(j) = "processing"}) = max_workers
    /\ \E j \in Jobs : StatusOf(j) = "queued"

\* C3: under fair scheduling, with every engine call returning or raising,
\* again and again every job in the registry has status completed or failed.
\* Records are never removed and a later request only adds jobs, so each
\* registered job, the ones queued behind max_workers busy workers included,
\* eventually reaches completed or failed.
C3_EveryJobFinishes ==
    []<>(\A j \in Jobs : StatusOf(j) \in Terminal)

C3_Witness ==
    /\ Cardinality(Jobs) > max_workers
    /\ \A j \in Jobs : StatusOf(j) \in Terminal

\* C4: once the engine has raised for a job, the job is never completed and
\* its content download is refused; when its task has returned, the record
\* holds status failed, progress 0, the engine's cause as error and a message
\* containing the cause.
C4_EngineFailureRecorded ==
    \A i \in DOMAIN tasks :
        "e" \in DOMAIN tasks[i] =>
            LET job == processing_status[tasks[i].job_id]
            IN  /\ job["status"] # "completed"
                /\ download_markdown(tasks[i].job_id) = <<400, "Job not completed">>
                /\ Finished(tasks[i]) =>
                       /\ job["status"] = "failed"
                       /\ job["progress"] = 0
                       /\ job["error"] = tasks[i].e
                       /\ \E k \in DOMAIN job["message"] : job["message"][k] = tasks[i].e

C4_Witness ==
    \E i \in DOMAIN tasks : "e" \in DOMAIN tasks[i] /\ Finished(tasks[i])

\* C5: a step of job J's task changes no other job's record, adds and
\* removes no record and touches no other task; when the task ends (the
\* engine's failure included) it no longer occupies a worker.
C5_FailureContained ==
    [][ \A i \in DOMAIN tasks :
            tasks'[i] # tasks[i] =>
                /\ DOMAIN processing_status' = Jobs
                /\ \A k \in Jobs \ {tasks[i].job_id} :
                       processing_status'[k] = processing_status[k]
                /\ \A k \in DOMAIN tasks \ {i} : tasks'[k] = tasks[k]
                /\ "e" \in DOMAIN tasks'[i] =>
                       /\ Finished(tasks'[i])
                       /\ Running(tasks') = Running(tasks) \ {i} ]_vars

C5_Witness ==
    /\ Len(tasks) > max_workers
    /\ \E i \in 1..max_workers : "e" \in DOMAIN tasks[i] /\ Finished(tasks[i])
    /\ Cardinality({i \in 1..max_workers : InEngine(tasks[i])}) = max_workers - 1
    /\ StatusOf(tasks[max_workers + 1].job_id) = "completed"

\* C6: while a job's status is neither completed nor failed its progress is
\* one of 0, 10, 30, 90 and no step lowers it.
C6_ProgressMonotone ==
    [][ \A j \in Jobs :
            processing_status'[j]["status"] \notin Terminal =>
                /\ processing_status'[j]["progress"] \in {0, 10, 30, 90}
                /\ processing_status'[j]["progress"] >= processing_status[j]["progress"] ]_vars

C6_Witness ==
    \E j \in Jobs : StatusOf(j) = "processing" /\ processing_status[j]["progress"] = 90

\* C7: a queued job has progress 0 and a completed job has progress 100.
C7_ProgressTiedToStatus ==
    \A j \in Jobs :
        /\ StatusOf(j) = "queued" => processing_status[j]["progress"] = 0
        /\ StatusOf(j) = "completed" => processing_status[j]["progress"] = 100

\* C8: a completed job's record holds its images and its output_dir, so a
\* content download run at that instant does not fail on the record.
C8_NoTornRecord ==
    \A j \in Jobs :
        StatusOf(j) = "completed" =>
            /\ {"images", "output_dir"} \subseteq DOMAIN processing_status[j]
            /\ download_markdown(j)[1] = 200

\* C9: a record holds an error only when its status is failed and an image
\* list only when its status is completed.
C9_ErrorAndImagesOnlyWhenTerminal ==
    \A j \in Jobs :
        /\ "error" \in DOMAIN processing_status[j] => StatusOf(j) = "failed"
        /\ "images" \in DOMAIN processing_status[j] => StatusOf(j) = "completed"

C9_Witness ==
    /\ \E j \in Jobs : "error" \in DOMAIN processing_status[j]
    /\ \E j \in Jobs : "images" \in DOMAIN processing_status[j]

\* C10: when upload_pdf has returned success, every returned job id is in the
\* registry with one of the four statuses and was handed to the pool exactly
\* once, and count is the number of files of the request with a name.
C10_SubmitRegistersAndHandsOver ==
    (upload.pc = "done" /\ upload.response.success) =>
        /\ \A k \in DOMAIN upload.response.job_ids :
               LET id == upload.response.job_ids[k]
               IN  /\ id \in Jobs
                   /\ StatusOf(id) \in {"queued", "processing", "completed", "failed"}
                   /\ Cardinality(TasksOf(id)) = 1
        /\ upload.response.count = Len(upload.response.job_ids)
        /\ upload.response.count = Cardinality(Named(upload.files))

C10_Witness ==
    /\ upload.pc = "done"
    /\ upload.response.success
    /\ upload.files = <<"a.pdf", "">>
    /\ upload.response.count = 1

\* the ids uuid.uuid4() has given out to upload_pdf so far
IssuedJobIds == 1..issued.job_id

\* C11: every id upload_pdf appends to job_ids was never given out before,
\* to this request or to an earlier one, and is not in the registry; the ids
\* a success response returns are pairwise distinct.
C11_FreshJobIds ==
    [][/\ \A k \in DOMAIN upload'.job_ids :
              k \notin DOMAIN upload.job_ids =>
                  /\ upload'.job_ids[k] \notin IssuedJobIds
                  /\ upload'.job_ids[k] \notin Jobs
                  /\ upload'.job_ids[k] \notin Range(upload.job_ids)
       /\ (upload'.pc = "done" /\ upload'.response.success) =>
              Cardinality(Range(upload'.response.job_ids)) = Len(upload'.response.job_ids)]_vars

C11_Witness ==
    /\ upload.pc = "done"
    /\ upload.response.success
    /\ upload.response.job_ids = <<2>>
    /\ 1 \in Jobs

\* C12: for every list of ids, known and unknown mixed, get_batch_status
\* answers 200 with the current record of each listed id that is in the
\* registry, once per position that lists it, and nothing for the others.
C12_BatchStatusOmitsUnknown ==
    \A L \in JobIdLists :
        LET r == get_batch_status(processing_status, [job_ids |-> L])
        IN  /\ r[1] = 200
            /\ \A k \in DOMAIN r[2] :
                   /\ r[2][k]["job_id"] \in Range(L) \cap Jobs
                   /\ r[2][k] = processing_status[r[2][k]["job_id"]]
            /\ \A j \in Range(L) :
                   Cardinality({k \in DOMAIN r[2] : r[2][k]["job_id"] = j})
                       = IF j \in Jobs THEN Cardinality({k \in DOMAIN L : L[k] = j}) ELSE 0

C12_Witness ==
    /\ Jobs = {1, 2}
    /\ get_batch_status(processing_status, [job_ids |-> <<0, 2, 1>>])[2]
           = <<processing_status[2], processing_status[1]>>

Answered(handler) == download'.served # download.served /\ download'.handler = handler

\* C15: download_package for an id that is not registered answers not-found,
\* for a queued, processing or failed job it answers not-ready, and in both
\* cases leaves the disk as it was: no staging directory, no archive.
C15_PackageRefusedLeavesNothing ==
    [][Answered("download_package") =>
           LET j == download'.job_ids[1]
           IN  /\ j \notin Jobs =>
                      /\ download'.code = 404 /\ download'.body = "Job not found"
                      /\ disk' = disk
               /\ (j \in Jobs /\ StatusOf(j) \in {"queued", "processing", "failed"}) =>
                      /\ download'.code = 400 /\ download'.body = "Job not completed"
                      /\ disk' = disk]_vars

C15_Witness ==
    /\ download.handler = "download_package"
    /\ download.code = 400
    /\ StatusOf(download.job_ids[1]) = "processing"
    /\ disk.staging = <<>> /\ disk.zips = <<>>

\* C16: at every instant, for every job whose status reads completed (a.pdf
\* in these runs), whatever the other jobs are doing, download_package
\* answers with an archive that holds a.md when output.md is on disk, the
\* images directory, under it every image of the job's list that is in the
\* job's output directory, and nothing else.
C16_PackageOfCompletedJob ==
    \A j \in Jobs :
        StatusOf(j) = "completed" =>
            LET n == download_package(State, j, "")
                listed == Range(Get(processing_status[j], "images", <<>>))
            IN  /\ n.download.code = 200
                /\ n.download.zip = <<"package", j>>
                /\ n.disk.zips[<<"package", j>>]
                       = {<<"images">>}
                             \cup {<<"a.md">> : f \in {"output.md"} \cap disk.outputs[j]}
                             \cup {<<"images", img>> : img \in listed \cap disk.outputs[j]}
                /\ n.disk.staging = disk.staging

\* the folders at the top of a directory's or an archive's content
TopFolders(tree) == {p[1] : p \in {q \in tree : Len(q) = 1}}

\* the jobs a batch request lists that are registered and read completed
Wanted(L) == {j \in Range(L) \cap Jobs : StatusOf(j) = "completed"}

\* C17: at every instant and for every list of ids, download_all_pdfs does
\* not fail because of the ids that are absent or not completed, and the
\* archive it sends has one subfolder for each listed job that is registered
\* and reads completed, and no other.
C17_BatchFoldersAreTheCompletedJobs ==
    \A L \in ArchiveJobIdLists :
        LET n == download_all_pdfs(State, L, "")
        IN  /\ n.download.code # 500
            /\ n.download.code = 200 =>
                   Cardinality(TopFolders(n.disk.zips[n.download.zip])) = Cardinality(Wanted(L))

\* C18: a batch request that names at least one id is answered with the
\* nothing-to-download error (404) when no listed id is registered and
\* completed, and with an archive whenever one is, unless a library call
\* raised.
C18_EmptyOnlyWhenNothingCompleted ==
    [][(Answered("download_all_pdfs") /\ download'.job_ids # <<0>>) =>
           LET L == download'.job_ids
           IN  /\ Wanted(L) = {} =>
                      /\ download'.code = 404
                      /\ download'.body = "No completed PDFs found to download"
               /\ Wanted(L) # {} =>
                      \/ download'.code = 200 /\ download'.zip \in DOMAIN disk'.zips
                      \/ download'.body = "Error creating batch download: OSError"]_vars

\* C19: the archive of a batch request holds as many subfolders as the
\* request has positions that list a registered, completed job: every such
\* position got a folder name of its own, none took a name already given.
C19_BatchFolderNamesDistinct ==
    [][(Answered("download_all_pdfs") /\ download'.code = 200) =>
           LET L == download'.job_ids
           IN  Cardinality(TopFolders(disk'.zips[download'.zip]))
                   = Cardinality({k \in DOMAIN L :
                                      L[k] \in Jobs /\ StatusOf(L[k]) = "completed"})]_vars

C19_Witness ==
    /\ download.handler = "download_all_pdfs"
    /\ download.code = 200
    /\ download.job_ids = <<1, 1, 2>>
    /\ TopFolders(disk.zips[download.zip]) = {"a", "a_1", "a_1_1"}

\* C20: when an archive request has been answered, whatever the answer, the
\* staging directory of that request (outputs/{job_id}_package or
\* outputs/batch_{batch_id}) does not exist.
C20_StagingRemoved ==
    [][download'.served # download.served =>
           LET dir == IF download'.handler = "download_package"
                      THEN <<"package", download'.job_ids[1]>>
                      ELSE <<"batch", issued'.batch_id>>
           IN  dir \notin DOMAIN disk'.staging]_vars

\* C21: no two package requests in flight work in the same staging directory
\* (which is also the name of the archive they write), and no step of one
\* request removes the staging directory of another request in flight.
C21_BuildsDoNotCollide ==
    [][/\ \A b, c \in InFlight : b # c => builds[b].dir # builds[c].dir
       /\ \A b \in InFlight :
              (builds'[b] = builds[b] /\ builds[b].dir \in DOMAIN disk.staging)
                  => builds[b].dir \in DOMAIN disk'.staging]_vars

\* C22: a step in which get_status, get_batch_status, download_markdown,
\* download_image, download_package or download_all_pdfs answers, with
\* whatever HTTP status, leaves the registry and the pool's work items as they
\* were.
C22_HandlersLeaveRegistry ==
    [][download'.served # download.served =>
           /\ processing_status' = processing_status
           /\ tasks' = tasks]_vars

C22_Witness ==
    /\ download.handler = "download_package"
    /\ download.code = 500
    /\ StatusOf(download.job_ids[1]) = "completed"

\* the blocks a task is in once it has called parse_pdf
PastEngineCall == {"engine", "try_tail", "except", "returned"}

\* C23: a job has at most one work item; a task that has called parse_pdf
\* never gets back to a point before the call, and one that has left the call
\* never enters it again; a failed job stays failed and gets no new work item.
C23_NoRetry ==
    [][/\ \A j \in Jobs : Cardinality(TasksOf(j)) <= 1
       /\ \A i \in DOMAIN tasks :
              /\ tasks[i].block \in PastEngineCall => tasks'[i].block \in PastEngineCall
              /\ tasks[i].block \in PastEngineCall \ {"engine"} => tasks'[i].block # "engine"
       /\ \A j \in Jobs :
              StatusOf(j) = "failed" =>
                  /\ processing_status'[j]["status"] = "failed"
                  /\ {i \in DOMAIN tasks' : tasks'[i].job_id = j} = TasksOf(j)]_vars

C23_Witness ==
    /\ Len(tasks) = 2
    /\ Finished(tasks[1]) /\ StatusOf(tasks[1].job_id) = "failed"
    /\ Finished(tasks[2]) /\ StatusOf(tasks[2].job_id) = "completed"
    /\ upload.pc = "done"

\* C24: a registered id stays registered; a failed job stays failed; an error
\* once recorded is never changed or removed, and get_status then answers
\* failed with that error.
C24_FailedStaysWithCause ==
    [][/\ Jobs \subseteq DOMAIN processing_status'
       /\ \A j \in Jobs :
              /\ StatusOf(j) = "failed" => processing_status'[j]["status"] = "failed"
              /\ "error" \in DOMAIN processing_status[j] =>
                     LET answer == get_status(processing_status', j)
                     IN  /\ answer["status"] = "failed"
                         /\ "error" \in DOMAIN answer
                         /\ answer["error"] = processing_status[j]["error"]]_vars

C24_Witness ==
    /\ Jobs = {1, 2}
    /\ Finished(tasks[1])
    /\ get_status(processing_status, 1)["status"] = "failed"
    /\ get_status(processing_status, 1)["error"] = "bad pdf"
    /\ StatusOf(2) = "processing"

\* C25: registering an id that is already in the registry fails and leaves
\* the existing record as it was.
C25_DuplicateIdRefused ==
    [][(/\ upload.pc = "register"
        /\ upload'.pc # "register"
        /\ job_id_of(upload) \in Jobs)
           => /\ processing_status' = processing_status
              /\ tasks' = tasks
              /\ upload'.pc = "done"
              /\ upload'.response.success = FALSE]_vars

\* sub occurs in the text str
Contains(str, sub) ==
    \E i \in 1..(Len(str) - Len(sub) + 1) : SubSeq(str, i, i + Len(sub) - 1) = sub

\* the text a refused download of job j carries, per handler
NotReadyBodies(j) ==
    {download_markdown(j)[2],
     download_package(State, j, "").download.body}
        \cup {download_image(j, image_name)[2] : image_name \in ImageNames}

\* C26: a download or package request refused because the job is queued,
\* processing or failed is answered with a text that names the job's status.
C26_NotReadyNamesStatus ==
    \A j \in Jobs :
        StatusOf(j) \in {"queued", "processing", "failed"} =>
            \A body \in NotReadyBodies(j) : Contains(body, StatusOf(j))

\* C27: a task enters the engine call only with status processing and
\* progress 30 stored; progress becomes 90 only after the engine returned;
\* status completed and the artifact paths are stored only after progress 90.
C27_CheckpointOrder ==
    [][/\ \A i \in DOMAIN tasks :
              (~InEngine(tasks[i]) /\ InEngine(tasks'[i])) =>
                  /\ processing_status'[tasks[i].job_id]["status"] = "processing"
                  /\ processing_status'[tasks[i].job_id]["progress"] = 30
       /\ \A j \in Jobs :
              /\ (processing_status[j]["progress"] # 90
                      /\ processing_status'[j]["progress"] = 90) =>
                     \E i \in TasksOf(j) : tasks[i].block = "try_tail"
              /\ (StatusOf(j) # "completed"
                      /\ processing_status'[j]["status"] = "completed") =>
                     processing_status[j]["progress"] = 90
              /\ (DOMAIN processing_status'[j] # DOMAIN processing_status[j]
                      /\ DOMAIN processing_status'[j] \cap {"images", "output_dir"} # {}) =>
                     /\ StatusOf(j) = "completed"
                     /\ processing_status[j]["progress"] = 100]_vars

C27_Witness ==
    \E i \in DOMAIN tasks :
        /\ tasks[i].block = "try_tail"
        /\ tasks[i].idx = 7
        /\ processing_status[tasks[i].job_id]["progress"] = 100
        /\ "images" \in DOMAIN processing_status[tasks[i].job_id]

\* C28: once a record is registered, every change of it is one step of the
\* one task of that job; no two tasks are about the same job, and no step of
\* the upload handler changes a registered record.
C28_SingleWriter ==
    [][\A j \in Jobs :
           /\ Cardinality(TasksOf(j)) <= 1
           /\ processing_status'[j] # processing_status[j] =>
                  /\ upload' = upload
                  /\ \E i \in TasksOf(j) :
                         /\ AtStore(tasks[i])
                         /\ tasks'[i] # tasks[i]
                         /\ \A k \in DOMAIN tasks \ {i} : tasks'[k] = tasks[k]]_vars

C28_Witness ==
    /\ Len(tasks) = 2
    /\ tasks[1].job_id # tasks[2].job_id
    /\ tasks[1].block = "except" /\ tasks[1].idx = 2
    /\ tasks[2].block = "try_tail" /\ tasks[2].idx = 3
    /\ upload.pc = "done"

\* the folder name a job's record asks for (line 1366)
Stem(j) == replace(replace(Get(processing_status[j], "filename", "document"),
                           ".pdf", ""), ".PDF", "")

\* name, name_1, name_2, ...
Suffixed(name, n) == IF n = 0 THEN name ELSE name \o "_" \o ToString(n)

\* the first of name, name_1, name_2, ... that is not in taken
SmallestFree(name, taken) ==
    Suffixed(name, CHOOSE n \in 0..Cardinality(taken) :
                       /\ Suffixed(name, n) \notin taken
                       /\ \A m \in 0..(n - 1) : Suffixed(name, m) \in taken)

\* the <<folder, stem>> pairs of the completed jobs of L[k..], given in
\* request order, when named holds those of L[1..k-1]
RECURSIVE NamedInOrder(_, _, _)
NamedInOrder(L, k, named) ==
    IF k > Len(L) THEN named
    ELSE IF L[k] \in Jobs /\ StatusOf(L[k]) = "completed"
    THEN NamedInOrder(L, k + 1,
             named \cup {<<SmallestFree(Stem(L[k]), {p[1] : p \in named}), Stem(L[k])>>})
    ELSE NamedInOrder(L, k + 1, named)

\* C29: in a batch archive the jobs are given folders in request order: a job
\* gets its name when no earlier job of the archive has that folder, and
\* otherwise name_n for the smallest n >= 1 whose folder is not yet taken
\* (name, name_1, name_2, ... for jobs of one name).
C29_SmallestFreeSuffix ==
    [][(Answered("download_all_pdfs") /\ download'.code = 200) =>
           LET tree  == disk'.zips[download'.zip]
               named == NamedInOrder(download'.job_ids, 1, {})
           IN  /\ TopFolders(tree) = {p[1] : p \in named}
               /\ \A q \in tree :
                      (Len(q) = 2 /\ q[2] # "images") =>
                          \E p \in named : q = <<p[1], p[2] \o ".md">>]_vars

C29_Witness ==
    /\ download.handler = "download_all_pdfs"
    /\ download.job_ids = <<1, 1, 2>>
    /\ download.code = 200
    /\ {<<"a", "a.md">>, <<"a_1", "a.md">>, <<"a_2", "a.md">>} \subseteq disk.zips[download.zip]

\* the content of the one subfolder of a batch archive, relative to it
SubfolderContent(tree) == {Tail(p) : p \in {q \in tree : Len(q) >= 2}}

\* C30: for every completed job, whatever its filename, the subfolder a
\* batch archive gives the job holds the same content file and the same
\* images/ as the job's single package.
C30_SubfolderMirrorsPackage ==
    \A j \in Jobs :
        (StatusOf(j) = "completed" /\ "output_dir" \in DOMAIN processing_status[j]) =>
            LET single == download_package(State, j, "")
                batch  == download_all_pdfs(State, <<j>>, "")
            IN  batch.download.code = 200 =>
                    /\ single.download.code = 200
                    /\ SubfolderContent(batch.disk.zips[batch.download.zip])
                           = single.disk.zips[single.download.zip]

\* lines 1176-1205 for one file, run from the state s
upload_file(s) == upload_submit(upload_register(upload_save(s)))

\* C31: whatever the number of jobs queued or processing, a request with
\* files and a key is taken on, and each file's job is registered and queued
\* at once without any task moving; a work item waiting in the queue leaves
\* its job queued with progress 0, and stays waiting while no worker is free.
C31_SubmitNeverWaits ==
    [][/\ upload.pc \in {"idle", "done"} =>
              \A files \in PoolUploadFiles, max_parallel \in MaxParallel :
                  upload_begin(State, files, TRUE, max_parallel).upload.pc = "save"
       /\ upload.pc = "save" =>
              /\ ENABLED UploadFileRun
              /\ LET n == upload_file(State)
                 IN  /\ Len(n.tasks) = Len(tasks) + 1
                     /\ SubSeq(n.tasks, 1, Len(tasks)) = tasks
                     /\ Queued(n.tasks[Len(n.tasks)])
                     /\ n.processing_status[n.tasks[Len(n.tasks)].job_id]["status"] = "queued"
       /\ \A i \in DOMAIN tasks :
              Queued(tasks[i]) =>
                  /\ StatusOf(tasks[i].job_id) = "queued"
                  /\ processing_status[tasks[i].job_id]["progress"] = 0
                  /\ ~idle_worker(tasks) => Queued(tasks'[i])]_vars

C31_Witness ==
    /\ Len(tasks) = max_workers + 1
    /\ \A i \in 1..max_workers : InEngine(tasks[i])
    /\ Queued(tasks[max_workers + 1])
    /\ processing_status[tasks[max_workers + 1].job_id]["progress"] = 0
    /\ upload.pc = "done"
    /\ upload.response.success

\* C32: in every state, all workers inside engine calls included, a single
\* and a batch status request can be answered at once, and the answer is the
\* record as it stands (or not_found), never a wait for a worker.
C32_StatusNeverWaits ==
    /\ download.served < MaxDownloads => (ENABLED GetStatus /\ ENABLED GetBatchStatus)
    /\ \A job_id \in ArchivePackageIds :
           get_status(processing_status, job_id)["status"]
               \in {"queued", "processing", "completed", "failed", "not_found"}
    /\ \A job_ids \in StatusJobIdLists :
           LET answer == get_batch_status(processing_status, [job_ids |-> job_ids])
           IN  /\ answer[1] = 200
               /\ Len(answer[2]) = Cardinality({k \in DOMAIN job_ids : job_ids[k] \in Jobs})

C32_Witness ==
    /\ Len(tasks) > max_workers
    /\ \A i \in 1..max_workers : InEngine(tasks[i])
    /\ download.handler = "get_status"
    /\ download.job_ids = <<1>>
    /\ download.body = "processing"

\* C33: when upload_pdf has answered success false, none of the ids the
\* request made is in the registry and none was handed to the pool.
C33_FailedSubmitLeavesNothing ==
    (upload.pc = "done" /\ ~upload.response.success) =>
        \A k \in DOMAIN upload.job_ids :
            /\ upload.job_ids[k] \notin Jobs
            /\ TasksOf(upload.job_ids[k]) = {}

\* C34: when download_all_pdfs has sent an archive, the number in the name it
\* is sent under is the number of job subfolders of the archive.
C34_CountIsSubfolders ==
    (download.handler = "download_all_pdfs" /\ download.code = 200) =>
        download.download_name =
            "all_converted_pdfs_"
                \o ToString(Cardinality(TopFolders(disk.zips[download.zip])))
                \o "_files.zip"

\* C35: work items are taken in the order of submission: while one waits in
\* the queue, every one submitted after it waits too. (Tasks return in any
\* order.)
C35_TakenInSubmissionOrder ==
    \A i, k \in DOMAIN tasks :
        (i < k /\ Queued(tasks[i])) => Queued(tasks[k])

C35_Witness ==
    /\ Len(tasks) = max_workers + 1
    /\ InEngine(tasks[1])
    /\ Finished(tasks[2])
    /\ StatusOf(tasks[2].job_id) = "completed"
    /\ Queued(tasks[max_workers])
    /\ Queued(tasks[max_workers + 1])

====
